---- MODULE Spec2Model ----
(***************************************************************************)
(* TechMart (src/main.py): the in-memory store behind the Streamlit pages. *)
(* The state is st.session_state: the accounts, the catalog, the per-user  *)
(* carts, the order ledger and the logged-in user.  Every button handler   *)
(* that writes to it is one action.  Rendering, images, charts and the     *)
(* page selector are left out: they write nothing the handlers read.       *)
(*                                                                         *)
(* Abstractions, each stated where it is made:                             *)
(*   - prices are whole numbers (the source uses floats);                  *)
(*   - the catalog starts with two products instead of 98;                 *)
(*   - datetime fields (created_at, estimated_delivery) are left out;      *)
(*   - uuid4()[:8] is taken to return an id no order has yet.              *)
(***************************************************************************)
EXTENDS Integers, Sequences, FiniteSets, TLC

VARIABLES
    users,         \* st.session_state.users: email -> account record
    products,      \* st.session_state.products: product id -> record
    user_carts,    \* st.session_state[f"{email}_cart"]: email -> (product id -> quantity)
    orders,        \* st.session_state.orders: order id -> order record
    current_user,  \* st.session_state.current_user: an email, or NoUser for None
    ret            \* the last handler that ran and what it reported

vars == <<users, products, user_carts, orders, current_user, ret>>

-----------------------------------------------------------------------------
(* Bounds of the model *)

\* the largest quantity typed into a quantity box, and the largest number of
\* units one cart is allowed to hold in the model
MaxQty == 2

\* the number of orders the ledger may hold under Spec
MaxOrders == 1

\* the number of orders the ledger may hold under SpecLedger and SpecRace
LedgerOrders == 2

\* min(10, stock) in the "Qty" number_input of a product card
QtyWidgetMax == 10

\* len(password) < 6 is rejected by the register form
MinPasswordLen == 6

\* stock of the two initial products: two carts of MaxQty together exceed it
InitStock == MaxQty + 1

\* the largest value the admin types into a stock box
MaxStock == InitStock

\* the model stops restoring stock above this value (a cancel can be repeated
\* after the status is set back, so stock has no upper limit in the code)
StockCap == InitStock + 1

-----------------------------------------------------------------------------
(* Values *)

NoUser == "None"
NoOrder == 0

BootstrapAdmin == "admin@techmart.com"
Emails == {BootstrapAdmin, "alice@example.com"}
Names == {"Name"}
Passwords == {"admin123", "abc"}

Statuses == <<"Pending", "Processing", "Shipped", "Delivered", "Cancelled">>
StatusSet == {Statuses[i] : i \in 1..Len(Statuses)}


EmptyDict == [x \in {} |-> 0]

\* a delete that empties the whole dict
DictDelAll(d, k) == EmptyDict

\* del d[k]
DictDel(d, k) == [x \in DOMAIN d \ {k} |-> d[x]]

\* d[k] = v
DictSet(d, k, v) == [x \in DOMAIN d \cup {k} |-> IF x = k THEN v ELSE d[x]]

\* f"P{n:03d}"
FormatProductId(n) ==
    IF n < 10 THEN "P00" \o ToString(n)
    ELSE IF n < 100 THEN "P0" \o ToString(n)
    ELSE "P" \o ToString(n)

\* the catalog built by init_session_state, cut down to its first two ids
InitProducts ==
    (FormatProductId(1) :> [price |-> 10, stock |-> InitStock]) @@
    (FormatProductId(2) :> [price |-> 25, stock |-> InitStock])

ProductIds == DOMAIN InitProducts

\* values typed into the "Add Product" form
NewPrices == {10}
NewStocks == {0, MaxStock}

-----------------------------------------------------------------------------
(* Utility functions *)

\* hashlib.sha256(password.encode()).hexdigest(): one digest per password
hash_password(password) == "sha256:" \o password

\* an authenticate_user that does not compare the password hash
AuthenticateAnyPassword(email, password) == email \in DOMAIN users

authenticate_user(email, password) ==
    IF email \in DOMAIN users
    THEN users[email].password = hash_password(password)
    ELSE FALSE

\* a register_user without its "if email not in st.session_state.users"
RegisterOverwriting(email, password, name) ==
    DictSet(users, email,
            [password |-> hash_password(password),
             name |-> name,
             is_admin |-> (email = BootstrapAdmin)])

\* a register_user that, for an email already registered, still rewrites
\* the account's is_admin flag before it returns False
RegisterResettingFlag(email, password, name) ==
    IF email \notin DOMAIN users
    THEN DictSet(users, email,
                 [password |-> hash_password(password),
                  name |-> name,
                  is_admin |-> (email = BootstrapAdmin)])
    ELSE [users EXCEPT ![email].is_admin = (email = BootstrapAdmin)]

\* a register_user that makes every new account an admin
RegisterAsAdmin(email, password, name) ==
    IF email \notin DOMAIN users
    THEN DictSet(users, email,
                 [password |-> hash_password(password),
                  name |-> name,
                  is_admin |-> TRUE])
    ELSE users

\* the users dict register_user leaves behind
register_user(email, password, name) ==
    IF email \notin DOMAIN users
    THEN DictSet(users, email,
                 [password |-> hash_password(password),
                  name |-> name,
                  is_admin |-> (email = BootstrapAdmin)])
    ELSE users

\* the cart of one user.  A missing f"{email}_cart" key reads as {} everywhere
\* (get_user_cart, add_to_cart and the reorder handler), so the model keeps an
\* empty dict for every email from the start.
CartOf(email) == user_carts[email]

get_user_cart ==
    IF current_user # NoUser THEN CartOf(current_user) ELSE EmptyDict

\* an add that writes cart[product_id] = quantity over an existing entry
CartPlusOverwriting(c, product_id, quantity) == DictSet(c, product_id, quantity)

\* cart[product_id] += quantity, or cart[product_id] = quantity
CartPlus(c, product_id, quantity) ==
    IF product_id \in DOMAIN c
    THEN [c EXCEPT ![product_id] = @ + quantity]
    ELSE DictSet(c, product_id, quantity)

\* an add to one cart shared by all users
AddToSharedCart(product_id, quantity) ==
    IF current_user # NoUser
    THEN [e \in DOMAIN user_carts |-> CartPlus(CartOf(e), product_id, quantity)]
    ELSE user_carts

\* the carts add_to_cart leaves behind
add_to_cart(product_id, quantity) ==
    IF current_user # NoUser
    THEN DictSet(user_carts, current_user,
                 CartPlus(CartOf(current_user), product_id, quantity))
    ELSE user_carts

RECURSIVE SumOver(_, _, _)
\* sum of price * quantity over the ids of S that are in the catalog
SumOver(c, cat, S) ==
    IF S = {} THEN 0
    ELSE LET p == CHOOSE x \in S : TRUE
         IN (IF p \in DOMAIN cat THEN cat[p].price * c[p] ELSE 0)
            + SumOver(c, cat, S \ {p})

\* a total that looks the prices up in the catalog as it was at the start
CartTotalAtInitialPrices ==
    SumOver(get_user_cart, InitProducts, DOMAIN get_user_cart)

calculate_cart_total == SumOver(get_user_cart, products, DOMAIN get_user_cart)

-----------------------------------------------------------------------------
(* What a handler reports: its name, whether it did its work, the order id
   create_order returned (NoOrder for None) and the message it showed. *)

Report(op, ok, oid, msg) == [op |-> op, ok |-> ok, oid |-> oid, msg |-> msg]

Init ==
    /\ users = EmptyDict
    /\ products = InitProducts
    /\ user_carts = [e \in Emails |-> EmptyDict]
    /\ orders = EmptyDict
    /\ current_user = NoUser
    /\ ret = Report("init", TRUE, NoOrder, "")

-----------------------------------------------------------------------------
(* Authentication: render_auth *)

\* the "Register" form
Register(email, name, password, confirm_password) ==
    /\ current_user = NoUser
    /\ IF password # confirm_password
       THEN /\ ret' = Report("register", FALSE, NoOrder, "Passwords don't match!")
            /\ UNCHANGED users
       ELSE IF Len(password) < MinPasswordLen
       THEN /\ ret' = Report("register", FALSE, NoOrder,
                             "Password must be at least 6 characters!")
            /\ UNCHANGED users
       ELSE IF email \notin DOMAIN users
       THEN /\ users' = register_user(email, password, name)
            /\ ret' = Report("register", TRUE, NoOrder,
                             "Registration successful! Please login.")
       ELSE /\ users' = register_user(email, password, name)
            /\ ret' = Report("register", FALSE, NoOrder, "Email already exists!")
    /\ UNCHANGED <<products, user_carts, orders, current_user>>

\* the "Login" form
Login(email, password) ==
    /\ current_user = NoUser
    /\ IF authenticate_user(email, password)
       THEN /\ current_user' = email
            /\ ret' = Report("login", TRUE, NoOrder, "Login successful!")
       ELSE /\ ret' = Report("login", FALSE, NoOrder, "Invalid credentials!")
            /\ UNCHANGED current_user
    /\ UNCHANGED <<users, products, user_carts, orders>>

\* the "Logout" button
Logout ==
    /\ current_user # NoUser
    /\ current_user' = NoUser
    /\ ret' = Report("logout", TRUE, NoOrder, "")
    /\ UNCHANGED <<users, products, user_carts, orders>>

-----------------------------------------------------------------------------
(* Cart: render_product_card, render_cart *)

\* the "Add to Cart" button of a product card
AddToCartButton(product_id, quantity) ==
    /\ product_id \in DOMAIN products
    /\ quantity \in 1..QtyWidgetMax
    /\ IF current_user # NoUser
       THEN IF products[product_id].stock >= quantity
            THEN /\ user_carts' = add_to_cart(product_id, quantity)
                 /\ ret' = Report("add_to_cart", TRUE, NoOrder, "Added item(s) to cart!")
            ELSE /\ ret' = Report("add_to_cart", FALSE, NoOrder, "Not enough stock!")
                 /\ UNCHANGED user_carts
       ELSE /\ ret' = Report("add_to_cart", FALSE, NoOrder,
                             "Please login to add items to cart!")
            /\ UNCHANGED user_carts
    /\ UNCHANGED <<users, products, orders, current_user>>

\* the "Remove" button of a cart row (rows exist for catalog products only)
RemoveFromCart(product_id) ==
    /\ current_user # NoUser
    /\ product_id \in DOMAIN get_user_cart
    /\ product_id \in DOMAIN products
    /\ user_carts' = [user_carts EXCEPT ![current_user] = DictDel(@, product_id)]
    /\ ret' = Report("remove", TRUE, NoOrder, "")
    /\ UNCHANGED <<users, products, orders, current_user>>

\* the "Update" button of a cart row: new_qty comes from a number_input
\* with min_value=1 and max_value=product['stock']
UpdateQty(product_id, new_qty) ==
    /\ current_user # NoUser
    /\ product_id \in DOMAIN get_user_cart
    /\ product_id \in DOMAIN products
    /\ new_qty \in 1..products[product_id].stock
    /\ new_qty # get_user_cart[product_id]
    /\ user_carts' = [user_carts EXCEPT ![current_user][product_id] = new_qty]
    /\ ret' = Report("update_qty", TRUE, NoOrder, "")
    /\ UNCHANGED <<users, products, orders, current_user>>

-----------------------------------------------------------------------------
(* Checkout: create_order, called by the "Checkout" button of render_cart
   and by the "Quick Checkout" button of main *)

\* create_order without its "if not cart: return None"
CheckoutRefusedNoCartCheck == current_user = NoUser

\* the two early "return None" of create_order
CheckoutRefused ==
    \/ current_user = NoUser
    \/ DOMAIN get_user_cart = {}

\* an order id derived from the user instead of a fresh uuid
NewOrderIdOfUser == IF current_user = BootstrapAdmin THEN 1 ELSE 2

\* str(uuid.uuid4())[:8], taken to be an id no order has yet
NewOrderId == Cardinality(DOMAIN orders) + 1

\* the order dict built by create_order
NewOrder(order_id) ==
    [id |-> order_id,
     user |-> current_user,
     items |-> get_user_cart,
     total |-> calculate_cart_total,
     status |-> "Pending"]

\* the stock loop subtracting 1 per cart entry instead of the quantity
DecrementStockByOne(c) ==
    [p \in DOMAIN products |->
        IF p \in DOMAIN c
        THEN [products[p] EXCEPT !.stock = @ - 1]
        ELSE products[p]]

\* "Update stock": the loop over cart.items() that subtracts the quantities
DecrementStock(c) ==
    [p \in DOMAIN products |->
        IF p \in DOMAIN c
        THEN [products[p] EXCEPT !.stock = @ - c[p]]
        ELSE products[p]]

CreateOrder ==
    /\ IF CheckoutRefused
       THEN /\ ret' = Report("create_order", FALSE, NoOrder, "")
            /\ UNCHANGED <<products, orders, user_carts>>
       ELSE /\ products' = DecrementStock(get_user_cart)
            /\ orders' = DictSet(orders, NewOrderId, NewOrder(NewOrderId))
            /\ user_carts' = [user_carts EXCEPT ![current_user] = EmptyDict]
            /\ ret' = Report("create_order", TRUE, NewOrderId, "Order placed successfully!")
    /\ UNCHANGED <<users, current_user>>

-----------------------------------------------------------------------------
(* My Orders: render_orders *)

\* a reorder that writes the ordered quantity over the cart entry
ReorderCartReplacing(c, items) ==
    LET added == DOMAIN items \cap DOMAIN products
    IN [p \in DOMAIN c \cup added |-> IF p \in added THEN items[p] ELSE c[p]]

\* the cart after the loop of "Reorder Items" over order['items']
ReorderCart(c, items) ==
    LET added == DOMAIN items \cap DOMAIN products
    IN [p \in DOMAIN c \cup added |->
           (IF p \in DOMAIN c THEN c[p] ELSE 0)
           + (IF p \in added THEN items[p] ELSE 0)]

\* the "Reorder Items" button, shown for the orders of the logged-in user
Reorder(order_id) ==
    /\ current_user # NoUser
    /\ order_id \in DOMAIN orders
    /\ orders[order_id].user = current_user
    /\ user_carts' = [user_carts EXCEPT
                         ![current_user] = ReorderCart(@, orders[order_id].items)]
    /\ ret' = Report("reorder", TRUE, NoOrder, "Items added to cart!")
    /\ UNCHANGED <<users, products, orders, current_user>>

-----------------------------------------------------------------------------
(* Admin dashboard: render_admin *)

\* an access check that asks for a logged-in user only
IsAdminAnyUser == current_user # NoUser

\* the access check at the top of render_admin
IsAdmin ==
    /\ current_user # NoUser
    /\ current_user \in DOMAIN users
    /\ users[current_user].is_admin

\* the "Add Product" form; `filled` is "name and price and category and description"
AddProduct(filled, price, stock) ==
    /\ IsAdmin
    /\ IF filled
       THEN LET product_id == FormatProductId(Cardinality(DOMAIN products) + 1)
            IN /\ products' = DictSet(products, product_id,
                                      [price |-> price, stock |-> stock])
               /\ ret' = Report("add_product", TRUE, NoOrder, "Product added successfully!")
       ELSE /\ ret' = Report("add_product", FALSE, NoOrder,
                             "Please fill in all required fields marked with *")
            /\ UNCHANGED products
    /\ UNCHANGED <<users, user_carts, orders, current_user>>

\* the "Update Stock" button: new_stock comes from a number_input with min_value=0
UpdateStock(pid, new_stock) ==
    /\ IsAdmin
    /\ pid \in DOMAIN products
    /\ new_stock >= 0
    /\ products' = [products EXCEPT ![pid].stock = new_stock]
    /\ ret' = Report("update_stock", TRUE, NoOrder, "Stock updated!")
    /\ UNCHANGED <<users, user_carts, orders, current_user>>

\* the "Delete Product" button
DeleteProduct(pid) ==
    /\ IsAdmin
    /\ pid \in DOMAIN products
    /\ products' = DictDel(products, pid)
    /\ ret' = Report("delete_product", TRUE, NoOrder, "Product deleted!")
    /\ UNCHANGED <<users, user_carts, orders, current_user>>

\* a status write that also empties the items of an order it cancels
WithStatusDroppingItems(order_id, new_status) ==
    [orders EXCEPT ![order_id] =
        [@ EXCEPT !.status = new_status,
                  !.items = IF new_status = "Cancelled" THEN EmptyDict ELSE @]]

\* st.session_state.orders[order_id]['status'] = new_status
WithStatus(order_id, new_status) ==
    [orders EXCEPT ![order_id].status = new_status]

\* the "Update Status" button: new_status is any entry of the selectbox
UpdateStatus(order_id, new_status) ==
    /\ IsAdmin
    /\ order_id \in DOMAIN orders
    /\ new_status \in StatusSet
    /\ orders' = WithStatus(order_id, new_status)
    /\ ret' = Report("update_status", TRUE, order_id, "Order status updated!")
    /\ UNCHANGED <<users, products, user_carts, current_user>>

\* current_status in ["Pending", "Processing"], the condition of "Cancel Order"
Cancellable(status) == status \in {"Pending", "Processing"}

\* a cancel that forgets to restore the stock
RestoreStockForgotten(items) == products

\* "Restore stock": the loop over order['items'] that adds the quantities back
RestoreStock(items) ==
    [p \in DOMAIN products |->
        IF p \in DOMAIN items
        THEN [products[p] EXCEPT !.stock = @ + items[p]]
        ELSE products[p]]

\* the "Cancel Order" button
CancelOrder(order_id) ==
    /\ IsAdmin
    /\ order_id \in DOMAIN orders
    /\ IF Cancellable(orders[order_id].status)
       THEN /\ products' = RestoreStock(orders[order_id].items)
            /\ orders' = WithStatus(order_id, "Cancelled")
            /\ ret' = Report("cancel", TRUE, order_id,
                             "Order cancelled and stock restored!")
       ELSE /\ ret' = Report("cancel", FALSE, order_id, "")
            /\ UNCHANGED <<products, orders>>
    /\ UNCHANGED <<users, user_carts, current_user>>

\* the "Make Admin" button
MakeAdmin(selected_user) ==
    /\ IsAdmin
    /\ selected_user \in DOMAIN users
    /\ users' = [users EXCEPT ![selected_user].is_admin = TRUE]
    /\ ret' = Report("make_admin", TRUE, NoOrder, "is now an admin!")
    /\ UNCHANGED <<products, user_carts, orders, current_user>>

\* a "Remove Admin" that protects no account
IsMainAdminNever(selected_user) == FALSE

\* selected_user == 'admin@techmart.com', the account "Remove Admin" protects
IsMainAdmin(selected_user) == selected_user = BootstrapAdmin

\* the "Remove Admin" button
RemoveAdmin(selected_user) ==
    /\ IsAdmin
    /\ selected_user \in DOMAIN users
    /\ IF ~IsMainAdmin(selected_user)
       THEN /\ users' = [users EXCEPT ![selected_user].is_admin = FALSE]
            /\ ret' = Report("remove_admin", TRUE, NoOrder, "Admin privileges removed")
       ELSE /\ ret' = Report("remove_admin", FALSE, NoOrder,
                             "Cannot remove admin privileges from main admin!")
            /\ UNCHANGED users
    /\ UNCHANGED <<products, user_carts, orders, current_user>>

-----------------------------------------------------------------------------

(* The bounds of the model.  The code limits neither the quantities, nor the
   stock, nor the number of orders; the model does, in Step, and leaves the
   handlers as they are in the code. *)

RECURSIVE Units(_, _)
\* the number of units a cart holds over the ids of S
Units(c, S) ==
    IF S = {} THEN 0
    ELSE LET p == CHOOSE x \in S : TRUE
         IN c[p] + Units(c, S \ {p})

\* the carts that hold something
OpenCarts == {e \in Emails : DOMAIN user_carts[e] # {}}

\* no cart holds more than MaxQty units, at most max_open_carts hold something
CartsWithin(max_open_carts) ==
    /\ \A e \in Emails : Units(user_carts[e], DOMAIN user_carts[e]) <= MaxQty
    /\ Cardinality(OpenCarts) <= max_open_carts

\* the catalog keeps to the ids of ProductIds and to stock up to StockCap
CatalogWithin ==
    /\ DOMAIN products \subseteq ProductIds
    /\ \A p \in DOMAIN products : products[p].stock <= StockCap

\* the handlers of the shop pages, for the accounts of `emails` and the
\* products of `shop`
ShopStep(emails, shop, max_orders, max_open_carts) ==
    \/ \E e \in emails, n \in Names, p \in Passwords, c \in Passwords : Register(e, n, p, c)
    \/ \E e \in emails, p \in Passwords : Login(e, p)
    \/ Logout
    \/ \E p \in shop, q \in 1..MaxQty :
          AddToCartButton(p, q) /\ CartsWithin(max_open_carts)'
    \/ \E p \in shop : RemoveFromCart(p)
    \/ \E p \in shop, q \in 1..MaxQty : UpdateQty(p, q) /\ CartsWithin(max_open_carts)'
    \/ CreateOrder /\ Cardinality(DOMAIN orders') <= max_orders
    \/ \E o \in 1..max_orders : Reorder(o) /\ CartsWithin(max_open_carts)'

\* the handlers of the admin dashboard
AdminStep(emails, max_orders) ==
    \/ \E f \in BOOLEAN, pr \in NewPrices, s \in NewStocks :
          AddProduct(f, pr, s) /\ CatalogWithin'
    \/ \E p \in ProductIds, s \in NewStocks : UpdateStock(p, s)
    \/ \E p \in ProductIds : DeleteProduct(p)
    \/ \E o \in 1..max_orders, s \in StatusSet : UpdateStatus(o, s)
    \/ \E o \in 1..max_orders : CancelOrder(o) /\ CatalogWithin'
    \/ \E e \in emails : MakeAdmin(e)
    \/ \E e \in emails : RemoveAdmin(e)

FirstProduct == {FormatProductId(1)}
AdminOnly == {BootstrapAdmin}

\* Every handler and both accounts; the first product in the carts, one
\* order in the ledger, one cart in use at a time.
Next ==
    \/ ShopStep(Emails, FirstProduct, MaxOrders, 1)
    \/ AdminStep(Emails, MaxOrders)

Spec == Init /\ [][Next]_vars

\* Every handler and both products in the carts; the bootstrap admin is the
\* only account and shops too, one order in the ledger.
NextCatalog ==
    \/ ShopStep(AdminOnly, ProductIds, MaxOrders, 1)
    \/ AdminStep(AdminOnly, MaxOrders)

SpecCatalog == Init /\ [][NextCatalog]_vars

\* Every handler and LedgerOrders orders in the ledger; the bootstrap admin
\* is the only account and shops too, the first product in the carts.
NextLedger ==
    \/ ShopStep(AdminOnly, FirstProduct, LedgerOrders, 1)
    \/ AdminStep(AdminOnly, LedgerOrders)

SpecLedger == Init /\ [][NextLedger]_vars

\* The shop pages alone, used by both accounts with a cart each: no admin
\* handler runs.
NextRace == ShopStep(Emails, FirstProduct, LedgerOrders, Cardinality(Emails))

SpecRace == Init /\ [][NextRace]_vars

-----------------------------------------------------------------------------

(* The properties of the specification, each stated over the handlers above. *)

\* the quantity of product p in the items of an order or in a cart
QtyIn(items, p) == IF p \in DOMAIN items THEN items[p] ELSE 0

RECURSIVE SumQty(_, _)
\* the units of product p over the orders of O
SumQty(p, O) ==
    IF O = {} THEN 0
    ELSE LET o == CHOOSE x \in O : TRUE
         IN QtyIn(orders[o].items, p) + SumQty(p, O \ {o})

\* the units of product p held by the orders that are not cancelled
Committed(p) == SumQty(p, {o \in DOMAIN orders : orders[o].status # "Cancelled"})

\* the handlers by which the admin edits the catalog directly
CatalogEdits == {"add_product", "update_stock", "delete_product"}

\* C1: the stock of every product is at least 0 in every reachable state.
StockNeverNegative == \A p \in DOMAIN products : products[p].stock >= 0

\* C2: for every product, the stock plus the quantities held by the orders
\* that are not cancelled is the same before and after every operation, the
\* admin's own edits of the catalog apart, which set a new original stock.
ConservationLaw ==
    [][ret'.op \notin CatalogEdits =>
         \A p \in DOMAIN products \cap DOMAIN products' :
             products'[p].stock + Committed(p)' = products[p].stock + Committed(p)]_vars

\* the logged-in user's cart asks for more of some product than is in stock
InsufficientStock ==
    \E p \in DOMAIN get_user_cart \cap DOMAIN products :
        get_user_cart[p] > products[p].stock

\* C3: a checkout whose cart asks for more of some product than is in stock
\* fails as a whole: no stock changes, no order is created, the cart is kept.
CheckoutAtomic ==
    [][(ret'.op = "create_order" /\ InsufficientStock) =>
         /\ ~ret'.ok
         /\ UNCHANGED <<products, orders, user_carts>>]_vars

\* C4: when two users check out the same product, the quantities of their
\* two orders together do not exceed the stock the product had: of two
\* checkouts that together ask for more, only one succeeds.
TwoCheckoutsOneWins ==
    \A o1, o2 \in DOMAIN orders : \A p \in DOMAIN InitProducts :
        (o1 # o2 /\ orders[o1].user # orders[o2].user)
            => QtyIn(orders[o1].items, p) + QtyIn(orders[o2].items, p)
                   <= InitProducts[p].stock

\* the edges of the order status graph
AllowedTransitions ==
    {<<"Pending", "Processing">>, <<"Processing", "Shipped">>,
     <<"Shipped", "Delivered">>,
     <<"Pending", "Cancelled">>, <<"Processing", "Cancelled">>}

\* C5: the status of an order changes only along an edge of the status
\* graph; every other requested change leaves the status as it was.
StatusTransitionsValid ==
    [][\A o \in DOMAIN orders :
          orders'[o].status # orders[o].status
              => <<orders[o].status, orders'[o].status>> \in AllowedTransitions]_vars

\* C6: an order that is Delivered or Cancelled never changes status again.
TerminalStatusesFinal ==
    [][\A o \in DOMAIN orders :
          orders[o].status \in {"Delivered", "Cancelled"}
              => orders'[o].status = orders[o].status]_vars

\* the step is the "Cancel Order" button pressed for order o
CancelPressed(o) == ret'.op = "cancel" /\ ret'.oid = o

\* a cancel of an order that is neither Pending nor Processing changes nothing
CancelRefusal(o) ==
    orders[o].status \notin {"Pending", "Processing"}
        => /\ ~ret'.ok
           /\ UNCHANGED <<products, orders, user_carts>>

\* C7 as stated: cancelling is allowed only from Pending or Processing; it
\* raises the stock of every product of the order's items by the quantity
\* ordered and sets the status to Cancelled.
CancelRestoresEveryItem ==
    [][\A o \in DOMAIN orders : CancelPressed(o) =>
          /\ CancelRefusal(o)
          /\ orders[o].status \in {"Pending", "Processing"}
                => /\ ret'.ok
                   /\ orders'[o].status = "Cancelled"
                   /\ \A p \in DOMAIN orders[o].items :
                         /\ p \in DOMAIN products /\ p \in DOMAIN products'
                         /\ products'[p].stock
                                = products[p].stock + orders[o].items[p]]_vars

\* C7, amended: cancelling is allowed only from Pending or Processing; it
\* raises the stock of every product of the order's items that is still in
\* the catalog by the quantity ordered, skips the items whose product was
\* deleted, changes no other stock, and sets the status to Cancelled.
CancelRestoresCatalogItems ==
    [][\A o \in DOMAIN orders : CancelPressed(o) =>
          /\ CancelRefusal(o)
          /\ orders[o].status \in {"Pending", "Processing"}
                => /\ ret'.ok
                   /\ orders'[o].status = "Cancelled"
                   /\ DOMAIN products' = DOMAIN products
                   /\ \A p \in DOMAIN products :
                         products'[p].stock
                             = products[p].stock + QtyIn(orders[o].items, p)]_vars

\* an order was just cancelled that holds a product still in the catalog and
\* a product that was deleted
CancelledWithDeletedItem ==
    /\ ret.op = "cancel" /\ ret.ok
    /\ ret.oid \in DOMAIN orders
    /\ orders[ret.oid].status = "Cancelled"
    /\ \E p, q \in DOMAIN orders[ret.oid].items :
          p \in DOMAIN products /\ q \notin DOMAIN products

\* C8: checking out and then cancelling the order leaves every stock as it
\* was: the checkout takes from the stock of each catalog product exactly
\* the quantity its new order records, the order's items never change
\* afterwards, and the cancel gives back exactly the quantities recorded.
CheckoutCancelRoundTrip ==
    [][\A o \in DOMAIN orders' :
          /\ o \notin DOMAIN orders
                => \A p \in DOMAIN products :
                      /\ p \in DOMAIN products'
                      /\ products'[p].stock
                             = products[p].stock - QtyIn(orders'[o].items, p)
          /\ o \in DOMAIN orders => orders'[o].items = orders[o].items
          /\ (o \in DOMAIN orders /\ CancelPressed(o) /\ ret'.ok)
                => \A p \in DOMAIN products :
                      /\ p \in DOMAIN products'
                      /\ products'[p].stock
                             = products[p].stock + QtyIn(orders[o].items, p)]_vars

\* an order was checked out and cancelled while another order stands: the
\* stock is the initial stock less the standing order's quantity
RoundTripDone ==
    /\ ret.op = "cancel" /\ ret.ok
    /\ ret.oid \in DOMAIN orders
    /\ DOMAIN orders[ret.oid].items # {}
    /\ \E o \in DOMAIN orders :
          /\ o # ret.oid
          /\ orders[o].status = "Pending"
          /\ \A p \in DOMAIN products :
                products[p].stock = InitProducts[p].stock - QtyIn(orders[o].items, p)
          /\ QtyIn(orders[o].items, FormatProductId(1)) > 0

\* C9: a checkout with an empty cart fails: it returns no order id, creates
\* no order, changes no stock and leaves the cart empty.
EmptyCartCheckoutFails ==
    [][(ret'.op = "create_order" /\ DOMAIN get_user_cart = {}) =>
          /\ ~ret'.ok
          /\ ret'.oid = NoOrder
          /\ UNCHANGED <<products, orders, user_carts>>]_vars

\* a logged-in user with an empty cart just had a checkout refused
EmptyCartCheckoutRefused ==
    /\ ret.op = "create_order" /\ ~ret.ok
    /\ current_user # NoUser
    /\ user_carts[current_user] = EmptyDict

\* what a successful checkout does besides the stock: one new order for the
\* current user, with the cart as items, the cart total as total and status
\* Pending; the other orders as they were; the cart cleared; the id returned
CheckoutRecordsOrder ==
    LET o == ret'.oid
    IN /\ o \notin DOMAIN orders
       /\ DOMAIN orders' = DOMAIN orders \cup {o}
       /\ \A x \in DOMAIN orders : orders'[x] = orders[x]
       /\ orders'[o].user = current_user
       /\ orders'[o].items = get_user_cart
       /\ orders'[o].total = calculate_cart_total
       /\ orders'[o].status = "Pending"
       /\ user_carts'[current_user] = EmptyDict

\* C10 as stated: a successful checkout creates exactly one order (the
\* current user's, items equal to the cart, total the cart total, status
\* Pending), lowers the stock of each product in the cart by the cart
\* quantity, clears the cart and returns the new order's id.
CheckoutDecrementsEveryCartProduct ==
    [][(ret'.op = "create_order" /\ ret'.ok) =>
          /\ CheckoutRecordsOrder
          /\ \A p \in DOMAIN get_user_cart :
                /\ p \in DOMAIN products /\ p \in DOMAIN products'
                /\ products'[p].stock = products[p].stock - get_user_cart[p]]_vars

\* C11: once an order exists, its items, its user and its total are the
\* same in every later state; only its status changes, whatever the cart
\* operations and checkouts that follow.
OrderImmutable ==
    [][\A o \in DOMAIN orders \cap DOMAIN orders' :
          /\ orders'[o].items = orders[o].items
          /\ orders'[o].user = orders[o].user
          /\ orders'[o].total = orders[o].total
          /\ orders'[o].id = orders[o].id]_vars

\* an order has moved on to Shipped, a later order exists, and the cart of
\* the first order's user holds something else than the order's items
OrderKeptThroughLaterWork ==
    \E o1, o2 \in DOMAIN orders :
        /\ o1 < o2
        /\ orders[o1].status = "Shipped"
        /\ user_carts[orders[o1].user] # EmptyDict
        /\ user_carts[orders[o1].user] # orders[o1].items

\* the step is a checkout that succeeded
CheckoutSucceeded == ret'.op = "create_order" /\ ret'.ok

AddedTo(c1, c2, p, q) ==
    /\ DOMAIN c2 = DOMAIN c1 \cup {p}
    /\ c2[p] = QtyIn(c1, p) + q
    /\ \A x \in DOMAIN c1 \ {p} : c2[x] = c1[x]

\* C13: an add to the cart either fails and leaves the cart unchanged, or
\* it is for a product of the catalog and a quantity within that product's
\* current stock, and then adds the quantity to the existing entry or
\* inserts a new entry with it.
AddItemContract ==
    [][ret'.op = "add_to_cart" =>
          \/ ~ret'.ok /\ user_carts' = user_carts
          \/ /\ ret'.ok
             /\ current_user # NoUser
             /\ \E p \in DOMAIN products : \E q \in 1..products[p].stock :
                   AddedTo(user_carts[current_user], user_carts'[current_user], p, q)]_vars

\* an add was just refused because the quantity exceeds the stock
AddRefusedForStock ==
    /\ ret.op = "add_to_cart" /\ ~ret.ok
    /\ ret.msg = "Not enough stock!"
    /\ current_user # NoUser
    /\ \E p \in DOMAIN products : products[p].stock < MaxQty

\* C14: right after a successful add to the cart or quantity update, no
\* entry the step wrote holds more than the current stock of its product.
CartEntryWithinStock ==
    [][(ret'.op \in {"add_to_cart", "update_qty"} /\ ret'.ok) =>
          \A p \in DOMAIN user_carts'[current_user] :
              QtyIn(user_carts[current_user], p) # user_carts'[current_user][p]
                  => /\ p \in DOMAIN products'
                     /\ user_carts'[current_user][p] <= products'[p].stock]_vars

\* C15: in every reachable state, every product id that is a key of some
\* user's cart is the id of a product of the catalog.
CartIdsInCatalog ==
    \A e \in DOMAIN user_carts : DOMAIN user_carts[e] \subseteq DOMAIN products

\* C16: a quantity update replaces the quantity of one cart entry by a new
\* value within the product's current stock and leaves every other entry as
\* it was; a removal deletes one entry and leaves every other entry as it was.
SetQuantityContract ==
    [][LET c1 == user_carts[current_user]
           c2 == user_carts'[current_user]
       IN /\ ret'.op = "update_qty"
                => \E p \in DOMAIN c1 \cap DOMAIN products :
                      /\ DOMAIN c2 = DOMAIN c1
                      /\ c2[p] \in 1..products[p].stock
                      /\ c2[p] # c1[p]
                      /\ \A x \in DOMAIN c1 \ {p} : c2[x] = c1[x]
          /\ ret'.op = "remove"
                => \E p \in DOMAIN c1 :
                      /\ DOMAIN c2 = DOMAIN c1 \ {p}
                      /\ \A x \in DOMAIN c2 : c2[x] = c1[x]]_vars

\* a quantity update just lowered an entry to 1 (an update always changes
\* the quantity, so the entry held more before) while the stock allowed more
QuantityLowered ==
    /\ ret.op = "update_qty"
    /\ current_user # NoUser
    /\ \E p \in DOMAIN user_carts[current_user] \cap DOMAIN products :
          /\ user_carts[current_user][p] = 1
          /\ products[p].stock > 1

RECURSIVE CatalogValue(_, _)
\* the sum, over the products of S, of the quantity cart c holds of the
\* product times the product's current price
CatalogValue(c, S) ==
    IF S = {} THEN 0
    ELSE LET p == CHOOSE x \in S : TRUE
         IN QtyIn(c, p) * products[p].price + CatalogValue(c, S \ {p})

\* C17: the cart total of the logged-in user is the sum of quantity times
\* current price over the cart entries whose product is in the catalog;
\* entries of deleted products add nothing; an empty cart or no logged-in
\* user gives 0.
CartTotalContract ==
    /\ calculate_cart_total = CatalogValue(get_user_cart, DOMAIN products)
    /\ current_user = NoUser => calculate_cart_total = 0
    /\ get_user_cart = EmptyDict => calculate_cart_total = 0

\* the cart holds an entry of the catalog and an entry of a deleted
\* product, and the total is the value of the first alone
TotalSkipsDeletedProduct ==
    /\ current_user # NoUser
    /\ \E p, q \in DOMAIN get_user_cart :
          /\ p \in DOMAIN products
          /\ q \notin DOMAIN products
          /\ calculate_cart_total = get_user_cart[p] * products[p].price
          /\ calculate_cart_total > 0

\* C18: carts are private: no step changes the cart of a user other than
\* the one logged in when the step is taken, and the cart read for the
\* logged-in user is that user's own cart.
CartsPrivate ==
    [][/\ \A e \in DOMAIN user_carts :
             e # current_user => user_carts'[e] = user_carts[e]
       /\ current_user # NoUser => get_user_cart = user_carts[current_user]]_vars

\* a user just checked out, leaving an empty cart, while another user's
\* cart still holds what that user put in it
OtherCartUntouched ==
    /\ ret.op = "create_order" /\ ret.ok
    /\ current_user # NoUser
    /\ user_carts[current_user] = EmptyDict
    /\ \E e \in DOMAIN user_carts :
          /\ e # current_user
          /\ user_carts[e] # EmptyDict
          /\ user_carts[e] # orders[ret.oid].items

\* C19: a reorder does not bypass the stock validation: no cart entry it
\* writes holds more than the current stock of its product.
ReorderWithinStock ==
    [][ret'.op = "reorder" =>
          \A p \in DOMAIN user_carts'[current_user] :
              QtyIn(user_carts[current_user], p) # user_carts'[current_user][p]
                  => /\ p \in DOMAIN products
                     /\ user_carts'[current_user][p] <= products[p].stock]_vars

\* C20: a registration never changes an existing account: for an email
\* already registered it fails and leaves the users as they were; for a new
\* email it adds one account, with is_admin true exactly when the email is
\* the bootstrap admin address.
RegisterContract ==
    [][ret'.op = "register" =>
          /\ \A e \in DOMAIN users : e \in DOMAIN users' /\ users'[e] = users[e]
          /\ ~ret'.ok => users' = users
          /\ ret'.ok
                => \E e \in DOMAIN users' :
                      /\ e \notin DOMAIN users
                      /\ DOMAIN users' = DOMAIN users \cup {e}
                      /\ users'[e].is_admin = (e = BootstrapAdmin)]_vars

\* a registration was just refused for an email already registered, the
\* account of that email having been made admin since it was created
AlreadyExistsRefused ==
    /\ ret.op = "register" /\ ~ret.ok
    /\ ret.msg = "Email already exists!"
    /\ BootstrapAdmin \in DOMAIN users /\ users[BootstrapAdmin].is_admin
    /\ \E e \in DOMAIN users : e # BootstrapAdmin /\ users[e].is_admin

\* the users with the is_admin flag of account e set to value
WithAdminFlag(e, value) == [users EXCEPT ![e].is_admin = value]

\* C21: once the bootstrap admin address is registered its is_admin flag is
\* true in every later state; a request to remove its flag is refused and
\* changes nothing; for any other account an admin can set the flag to true
\* or to false.
BootstrapAdminProtected ==
    [][/\ BootstrapAdmin \in DOMAIN users'
             => users'[BootstrapAdmin].is_admin
       /\ (ret'.op = "remove_admin" /\ ~ret'.ok)
             => UNCHANGED <<users, products, user_carts, orders, current_user>>
       /\ (ret'.op = "remove_admin" /\ ret'.ok)
             => \E e \in DOMAIN users \ {BootstrapAdmin} :
                   users' = WithAdminFlag(e, FALSE)
       /\ ret'.op = "make_admin"
             => \E e \in DOMAIN users : users' = WithAdminFlag(e, TRUE)]_vars

\* an admin other than the bootstrap admin just asked to remove the
\* bootstrap admin's flag and was refused
RevokeOfBootstrapRefused ==
    /\ ret.op = "remove_admin" /\ ~ret.ok
    /\ current_user # NoUser /\ current_user # BootstrapAdmin
    /\ BootstrapAdmin \in DOMAIN users /\ users[BootstrapAdmin].is_admin

\* C22: an operation that fails (a rejected login, registration or add to
\* the cart, a checkout that fails, a rejected cancel, a refused removal of
\* the admin flag) leaves the catalog, all carts, the orders, the accounts
\* and the logged-in user exactly as they were.
FailedOperationChangesNothing ==
    [][~ret'.ok =>
          UNCHANGED <<users, products, user_carts, orders, current_user>>]_vars

\* a cancel of a Shipped order was just rejected, with the order's
\* quantities still taken from the stock
CancelOfShippedRejected ==
    /\ ret.op = "cancel" /\ ~ret.ok
    /\ ret.oid \in DOMAIN orders
    /\ orders[ret.oid].status = "Shipped"
    /\ \E p \in DOMAIN orders[ret.oid].items \cap DOMAIN products :
          products[p].stock = InitProducts[p].stock - orders[ret.oid].items[p]

\* the handlers of the admin dashboard
AdminOps ==
    CatalogEdits \cup {"update_status", "cancel", "make_admin", "remove_admin"}

\* the logged-in user is a registered account whose is_admin is true
HoldsAdminRole ==
    /\ current_user \in DOMAIN users
    /\ users[current_user].is_admin

\* C23: the admin operations (status update, cancel, stock edit, product
\* create and delete, make and remove admin) happen only while the logged-in
\* user is a registered account whose is_admin is true; a step taken with
\* no user or a non-admin logged in changes no order status, no account
\* and no product of the catalog other than by a checkout.
AdminOperationsGated ==
    [][~HoldsAdminRole =>
          /\ ret'.op \notin AdminOps
          /\ \A o \in DOMAIN orders : orders'[o].status = orders[o].status
          /\ \A e \in DOMAIN users : users'[e] = users[e]
          /\ DOMAIN products' = DOMAIN products
          /\ ret'.op # "create_order" => products' = products]_vars

\* an account other than the bootstrap admin, made admin, just updated an
\* order's status while the bootstrap admin's account exists
PromotedAdminActed ==
    /\ ret.op = "update_status" /\ ret.ok
    /\ HoldsAdminRole
    /\ current_user # BootstrapAdmin
    /\ BootstrapAdmin \in DOMAIN users

\* the operations that may change a stock: checkout, cancel, stock edit
StockOps == {"create_order", "cancel", "update_stock"}

\* C24: the stock of a product is changed only by a checkout, by a cancel
\* and by the admin's stock edit; every other operation leaves the stock of
\* every product as it was.
StockChangedOnlyByStockOps ==
    [][ret'.op \notin StockOps =>
          \A p \in DOMAIN products \cap DOMAIN products' :
              products'[p].stock = products[p].stock]_vars

\* C25: a product creation stores the product under an id no existing
\* product has: it adds exactly one product and leaves the record of every
\* existing product as it was.
ProductIdsUnique ==
    [][(ret'.op = "add_product" /\ ret'.ok) =>
          /\ \E id \in DOMAIN products' :
                /\ id \notin DOMAIN products
                /\ DOMAIN products' = DOMAIN products \cup {id}
          /\ \A p \in DOMAIN products : products'[p] = products[p]]_vars

\* cart c2 is cart c1 after a reorder of `items`: every item whose product
\* is in the catalog is added on top of what the cart held, every other
\* item is skipped, every other entry is as it was
ReorderedInto(c1, c2, items) ==
    /\ DOMAIN c2 = DOMAIN c1 \cup (DOMAIN items \cap DOMAIN products)
    /\ \A p \in DOMAIN c2 :
          c2[p] = QtyIn(c1, p) + (IF p \in DOMAIN products THEN QtyIn(items, p) ELSE 0)

\* C26: a reorder adds to the requesting user's cart, for each item of one
\* of that user's orders whose product is still in the catalog, the ordered
\* quantity on top of the cart's quantity, and skips the items whose product
\* was deleted; it changes no order and no stock.
ReorderContract ==
    [][ret'.op = "reorder" =>
          /\ \E o \in DOMAIN orders :
                /\ orders[o].user = current_user
                /\ ReorderedInto(user_carts[current_user],
                                 user_carts'[current_user], orders[o].items)
          /\ UNCHANGED <<orders, products>>]_vars

\* a reorder just added to an entry the cart already held and skipped an
\* item whose product was deleted
ReorderedOnTopSkippingDeleted ==
    /\ ret.op = "reorder"
    /\ current_user # NoUser
    /\ \E o \in DOMAIN orders : \E p, q \in DOMAIN orders[o].items :
          /\ orders[o].user = current_user
          /\ p \in DOMAIN products
          /\ q \notin DOMAIN products
          /\ q \notin DOMAIN user_carts[current_user]
          /\ p \in DOMAIN user_carts[current_user]
          /\ user_carts[current_user][p] > orders[o].items[p]

\* account e exists and was stored with the hash of password p
RegisteredWith(e, p) ==
    /\ e \in DOMAIN users
    /\ users[e].password = hash_password(p)

\* a step that appends an order to the ledger
OrderCreated(o) == o \in DOMAIN orders' /\ o \notin DOMAIN orders

\* C27: authentication succeeds exactly when the email is registered and
\* the password is the registered one; the logged-in user is none or a
\* registered email, only a successful login sets it, logout resets it to
\* none, and every order carries the registered email that was logged in
\* at its checkout.
AuthenticationContract ==
    [][/\ \A e \in Emails, p \in Passwords :
             /\ authenticate_user(e, p) <=> RegisteredWith(e, p)
             /\ Login(e, p) => (ret'.ok <=> RegisteredWith(e, p))
       /\ current_user \in {NoUser} \cup DOMAIN users
       /\ current_user' \in {NoUser} \cup DOMAIN users'
       /\ current_user' # current_user =>
             \/ ret'.op = "login" /\ ret'.ok /\ current_user = NoUser
             \/ ret'.op = "logout" /\ current_user' = NoUser
       /\ ret'.op = "logout" => current_user' = NoUser
       /\ (ret'.op = "login" /\ ~ret'.ok) => current_user' = current_user
       /\ \A o \in DOMAIN orders' :
             /\ orders'[o].user \in DOMAIN users'
             /\ OrderCreated(o) =>
                   /\ orders'[o].user = current_user
                   /\ current_user \in DOMAIN users]_vars

\* an account that registered has logged in again after a checkout of its
\* own, and a login with the unregistrable password is refused there
RegisteredUserLoggedInAgain ==
    /\ ret.op = "login"
    /\ ret.ok
    /\ current_user \in DOMAIN users
    /\ current_user # BootstrapAdmin
    /\ \E o \in DOMAIN orders : orders[o].user = current_user
    /\ \E p \in Passwords :
          ~authenticate_user(current_user, p)

\* order o is not Cancelled before the step and Cancelled after it
BecomesCancelled(o) ==
    /\ orders[o].status # "Cancelled"
    /\ orders'[o].status = "Cancelled"

\* the step adds the quantities of order o back to the stock of every
\* product of the catalog
RestoresQuantitiesOf(o) ==
    \A p \in DOMAIN products :
        /\ p \in DOMAIN products'
        /\ products'[p].stock = products[p].stock + QtyIn(orders[o].items, p)

\* C28: over the admin's status updates and cancels the quantities of an
\* order are restored exactly once, when it becomes Cancelled: a step that
\* makes an order Cancelled restores its quantities, a status update or
\* cancel that makes no order Cancelled leaves the stock alone, and a
\* Cancelled order is not made cancellable again, so that no second restore
\* of the same order follows.
RestoredExactlyOnce ==
    [][ret'.op \in {"update_status", "cancel"} =>
          /\ \A o \in DOMAIN orders :
                /\ BecomesCancelled(o) => RestoresQuantitiesOf(o)
                /\ orders[o].status = "Cancelled" => orders'[o].status = "Cancelled"
          /\ (\A o \in DOMAIN orders : ~BecomesCancelled(o)) =>
                products' = products]_vars

\* C29: every product id in the items of an order created by checkout was
\* in the catalog at checkout time, had its stock lowered by the ordered
\* quantity, and is counted in the total: the total is the sum of quantity
\* times price at checkout over all the items of the order.
OrderItemsAllInCatalog ==
    [][\A o \in DOMAIN orders' : OrderCreated(o) =>
          /\ \A p \in DOMAIN orders'[o].items :
                /\ p \in DOMAIN products
                /\ p \in DOMAIN products'
                /\ products'[p].stock = products[p].stock - orders'[o].items[p]
          /\ orders'[o].total = CatalogValue(orders'[o].items, DOMAIN orders'[o].items)]_vars

\* account e is an admin after the step and was not one before it, either
\* because it did not exist or because its flag was false
BecomesAdmin(e) ==
    /\ e \in DOMAIN users'
    /\ users'[e].is_admin
    /\ e \in DOMAIN users => ~users[e].is_admin

\* C30: an account becomes an admin only by registering with the bootstrap
\* address or by a Make Admin pressed while an admin is logged in; no step
\* of a non-admin makes any other account an admin, and login and logout
\* leave every cart, every order and the catalog with its stock unchanged.
AdminOnlyByBootstrapOrGrant ==
    [][/\ \A e \in Emails : BecomesAdmin(e) =>
             \/ /\ ret'.op = "register"
                /\ e = BootstrapAdmin
                /\ e \notin DOMAIN users
             \/ /\ ret'.op = "make_admin"
                /\ HoldsAdminRole
       /\ ret'.op \in {"login", "logout"} =>
             UNCHANGED <<user_carts, orders, products, users>>]_vars

\* an account other than the bootstrap one has placed an order, was then
\* made admin by a logged-in admin, and the bootstrap account is the one
\* logged in
GrantedAfterShopping ==
    /\ ret.op = "make_admin"
    /\ current_user = BootstrapAdmin
    /\ \E e \in DOMAIN users :
          /\ e # BootstrapAdmin
          /\ users[e].is_admin
          /\ \E o \in DOMAIN orders : orders[o].user = e

====
